---------------------------- MODULE Spec2Model ----------------------------
(***************************************************************************)
(* EEMS_Pro/version.py as a state machine.                                 *)
(*                                                                         *)
(* The file is a Python module made of blank lines, comment lines and      *)
(* assignments of a string literal to __version__.  Importing it compiles  *)
(* the whole text (line by line, character by character) into a list of    *)
(* LOAD_CONST / STORE_NAME instructions and then runs that list against    *)
(* the module namespace.  The text of the file is kept verbatim, one       *)
(* definition per line (L1 .. L38), each a tuple of its characters.        *)
(***************************************************************************)
EXTENDS Integers, Sequences, FiniteSets

VARIABLES
  pc,         \* "compile", "exec", "done" or "error"
  line,       \* 1-based number of the line being scanned
  col,        \* 1-based column of the next character of that line
  lex,        \* scanner state of the current line
  code,       \* instructions emitted so far
  ip,         \* 1-based index of the next instruction to run
  stack,      \* evaluation stack of the module's frame
  namespace   \* the module's global bindings made by its own code

vars == << pc, line, col, lex, code, ip, stack, namespace >>

(***************************************************************************)
(* The text of version.py.                                                 *)
(***************************************************************************)
L1 ==
  << "_", "_", "v", "e", "r", "s", "i", "o", "n", "_", "_", " ", "=", " ", "\"", "1",
     ".", "0", ".", "4", "\"" >>

L2 == << >>

L3 ==
  << "#", " ", "P", "a", "n", "d", "a", "s", " ", "v", "e", "r", "s", "i", "o", "n",
     " ", "2", ".", "0", ".", "2", " ", "(", "w", "h", "i", "c", "h", " ", "i", "s",
     " ", "d", "i", "s", "t", "r", "i", "b", "u", "t", "e", "d", " ", "w", "i", "t",
     "h", " ", "l", "a", "t", "e", "r", " ", "v", "e", "r", "s", "i", "o", "n", "s",
     " ", "o", "f", " ", "A", "r", "c", "G", "I", "S", " ", "P", "r", "o", ")", " ",
     "h", "a", "s", " ", "a", " ", "b", "u", "g", " ", "d", "e", "s", "c", "r", "i",
     "b", "e", "d", " ", "h", "e", "r", "e", ":", " " >>

L4 ==
  << "#", " ", "h", "t", "t", "p", "s", ":", "/", "/", "g", "i", "t", "h", "u", "b",
     ".", "c", "o", "m", "/", "p", "a", "n", "d", "a", "s", "-", "d", "e", "v", "/",
     "p", "a", "n", "d", "a", "s", "/", "i", "s", "s", "u", "e", "s", "/", "4", "6",
     "1", "7", "8", " " >>

L5 ==
  << "#", " ", "T", "h", "i", "s", " ", "w", "a", "s", " ", "c", "a", "u", "s", "i",
     "n", "g", " ", "a", "n", " ", "e", "r", "r", "o", "r", " ", "d", "u", "r", "i",
     "n", "g", " ", "t", "h", "e", " ", "S", "P", "D", "F", " ", "j", "o", "i", "n",
     " ", "(", "m", "e", "r", "g", "e", ")", ",", " ", "l", "i", "k", "e", "l", "y",
     " ", "b", "e", "c", "a", "u", "s", "e", " ", "t", "h", "e", " ", "v", "a", "l",
     "u", "e", "s", " ", "i", "n", " ", "t", "h", "e", " ", "C", "S", "V", "I", "D",
     " ", "f", "i", "e", "l", "d", " ", "o", "f", " ", "t", "h", "e", " ", "E", "E",
     "M", "S", " " >>

L6 ==
  << "#", " ", "o", "u", "t", "p", "u", "t", " ", "C", "S", "V", " ", "w", "e", "r",
     "e", " ", "b", "e", "i", "n", "g", " ", "c", "a", "s", "t", " ", "t", "o", " ",
     "f", "l", "o", "a", "t", "s", " ", "d", "u", "r", "i", "n", "g", " ", "t", "h",
     "e", " ", "p", "d", ".", "r", "e", "a", "d", "_", "c", "s", "v", "(", ")", " ",
     "c", "a", "l", "l", ".", " " >>

L7 ==
  << "#", " ", "T", "h", "e", " ", "f", "i", "x", " ", "w", "a", "s", " ", "t", "o",
     " ", "e", "x", "p", "l", "i", "c", "i", "t", "l", "y", " ", "c", "a", "s", "t",
     " ", "t", "h", "e", " ", "C", "S", "V", "I", "D", " ", "f", "i", "e", "l", "d",
     " ", "t", "o", " ", "a", "n", " ", "I", "n", "t", "3", "2", " ", "w", "i", "t",
     "h", "i", "n", " ", "t", "h", "e", " ", "p", "d", ".", "r", "e", "a", "d", "_",
     "c", "s", "v", "(", ")", " ", "c", "a", "l", "l", ".", " " >>

L8 == << >>

L9 ==
  << "_", "_", "v", "e", "r", "s", "i", "o", "n", "_", "_", " ", "=", " ", "\"", "1",
     ".", "0", ".", "3", "\"" >>

L10 == << >>

L11 ==
  << "#", " ", "U", "s", "e", " ", "&", "M", "e", "d", "i", "u", "m", "S", "p", "a",
     "c", "e", ";", " ", "i", "n", "s", "t", "e", "a", "d", " ", "o", "f", " ", "&",
     "n", "b", "s", "p", ";", " ", "i", "n", " ", "t", "h", "e", " ", "c", "o", "m",
     "m", "a", "n", "d", " ", "f", "i", "l", "e", " ", "m", "e", "t", "a", "d", "a",
     "t", "a", " ", "t", "o", " ", "a", "l", "l", "o", "w", " ", "t", "e", "x", "t",
     " ", "w", "r", "a", "p", "p", "i", "n", "g", " ", "i", "n", " ", "c", "u", "s",
     "t", "o", "m", " ", "w", "e", "b", " ", "a", "p", "p", "l", "i", "c", "a", "t",
     "i", "o", "n", "s", ".", " ", " ", " ", " ", " " >>

L12 ==
  << "_", "_", "v", "e", "r", "s", "i", "o", "n", "_", "_", " ", "=", " ", "\"", "1",
     ".", "0", ".", "2", "\"" >>

L13 == << >>

L14 ==
  << "#", " ", "F", "i", "x", " ", "N", "o", "n", "e", "T", "y", "p", "e", " ", "e",
     "r", "r", "o", "r", " ", "i", "n", "t", "r", "o", "d", "u", "c", "e", "d", " ",
     "b", "y", " ", "w", "r", "i", "t", "i", "n", "g", " ", "h", "e", "a", "d", "e",
     "r", " ", "t", "o", " ", "c", "o", "m", "m", "a", "n", "d", " ", "f", "i", "l",
     "e", " ", " ", " " >>

L15 == << >>

L16 ==
  << "_", "_", "v", "e", "r", "s", "i", "o", "n", "_", "_", " ", "=", " ", "\"", "1",
     ".", "0", ".", "1", "\"" >>

L17 == << >>

L18 ==
  << "#", " ", "C", "h", "e", "c", "k", " ", "f", "o", "r", " ", "N", "o", "n", "-",
     "A", "S", "C", "I", "I", " ", "C", "h", "a", "r", "a", "c", "t", "e", "r", "s",
     " " >>

L19 == << >>

L20 ==
  << "_", "_", "v", "e", "r", "s", "i", "o", "n", "_", "_", " ", "=", " ", "\"", "1",
     ".", "0", ".", "0", "\"" >>

L21 == << >>

L22 ==
  << "#", " ", "P", "r", "o", "d", "u", "c", "t", "i", "o", "n", " ", "R", "e", "l",
     "e", "a", "s", "e" >>

L23 == << >>

L24 ==
  << "_", "_", "v", "e", "r", "s", "i", "o", "n", "_", "_", " ", "=", " ", "\"", "0",
     ".", "9", ".", "0", "\"" >>

L25 == << >>

L26 ==
  << "#", " ", "I", "n", "t", "e", "r", "n", "a", "l", " ", "R", "e", "l", "e", "a",
     "s", "e", " ", "f", "o", "r", " ", "B", "E", "T", "A", " ", "T", "e", "s", "t",
     "i", "n", "g" >>

L27 == << >>

L28 ==
  << "#", "_", "_", "v", "e", "r", "s", "i", "o", "n", "_", "_", " ", "=", " ", "\"",
     "0", ".", "0", ".", "3", "\"" >>

L29 == << >>

L30 ==
  << "#", " ", "A", "d", "d", " ", "A", "r", "c", "G", "I", "S", " ", "D", "e", "s",
     "k", "t", "o", "p", " ", "C", "o", "m", "p", "a", "t", "i", "b", "i", "l", "i",
     "t", "y", " " >>

L31 == << >>

L32 ==
  << "#", "_", "_", "v", "e", "r", "s", "i", "o", "n", "_", "_", " ", "=", " ", "\"",
     "0", ".", "0", ".", "2", "\"" >>

L33 == << >>

L34 ==
  << "#", " ", "I", "m", "p", "l", "e", "m", "e", "n", "t", " ", "S", "p", "a", "t",
     "i", "a", "l", "l", "y", " ", "E", "n", "a", "b", "l", "e", "d", " ", "D", "a",
     "t", "a", " ", "F", "r", "a", "m", "e", "/", "P", "a", "n", "d", "a", "s", " ",
     "J", "o", "i", "n" >>

L35 == << >>

L36 ==
  << "#", "_", "_", "v", "e", "r", "s", "i", "o", "n", "_", "_", " ", "=", " ", "\"",
     "0", ".", "0", ".", "1", "\"" >>

L37 == << >>

L38 ==
  << "#", " ", "I", "n", "i", "t", "i", "a", "l", "i", "z", "e", " ", "A", "r", "c",
     "G", "I", "S", " ", "P", "r", "o", " ", "C", "o", "m", "p", "a", "t", "i", "b",
     "l", "e", " ", "V", "e", "r", "s", "i", "o", "n", " ", " " >>

Source_NoBump ==
  << L1, L2, L3, L4, L5, L6, L7, L8, L1, L10,
     L11, L12, L13, L14, L15, L16, L17, L18, L19, L20,
     L21, L22, L23, L24, L25, L26, L27, L28, L29, L30,
     L31, L32, L33, L34, L35, L36, L37, L38 >>

Source_DraftLive ==
  << L1, L2, L3, L4, L5, L6, L7, L8, L9, L10,
     L11, L12, L13, L14, L15, L16, L17, L18, L19, L20,
     L21, L22, L23, L24, L25, L26, L27, Tail(L28), L29, L30,
     L31, L32, L33, L34, L35, L36, L37, L38 >>

Source ==
  << L1, L2, L3, L4, L5, L6, L7, L8, L9, L10,
     L11, L12, L13, L14, L15, L16, L17, L18, L19, L20,
     L21, L22, L23, L24, L25, L26, L27, L28, L29, L30,
     L31, L32, L33, L34, L35, L36, L37, L38 >>

NLines == Len(Source)

(***************************************************************************)
(* Character classes of the scanner.                                       *)
(***************************************************************************)
Digits == { "0", "1", "2", "3", "4", "5", "6", "7", "8", "9" }

Letters ==
  { "a", "b", "c", "d", "e", "f", "g", "h", "i", "j", "k", "l", "m",
    "n", "o", "p", "q", "r", "s", "t", "u", "v", "w", "x", "y", "z",
    "A", "B", "C", "D", "E", "F", "G", "H", "I", "J", "K", "L", "M",
    "N", "O", "P", "Q", "R", "S", "T", "U", "V", "W", "X", "Y", "Z" }

IsSpace(ch) == ch = " "

IsIdentStart_NoUnderscore(ch) == ch \in Letters

IsIdentStart(ch) == ch \in Letters \cup { "_" }

IsIdentChar(ch) == ch \in Letters \cup Digits \cup { "_" }

\* The name every assignment of the file binds.
VersionName == << "_", "_", "v", "e", "r", "s", "i", "o", "n", "_", "_" >>

(***************************************************************************)
(* The scanner.  A line is a statement  NAME = "literal"  optionally       *)
(* followed by a comment, or it is blank, or it is a comment.  A "#" that  *)
(* starts a line (after optional blanks) makes the rest of the line a      *)
(* comment.  Every other shape is rejected (mode "error"): the file holds  *)
(* no other shape.                                                         *)
(***************************************************************************)
LexStart == [ mode |-> "bol", name |-> << >>, value |-> << >>, complete |-> FALSE ]

LexError(st) == [ st EXCEPT !.mode = "error", !.complete = FALSE ]

LexStep_KeepQuote(st, ch) ==
  CASE st.mode = "error" -> st
    [] st.mode = "comment" -> st
    [] st.mode = "bol" ->
         IF ch = "#" THEN [ st EXCEPT !.mode = "comment" ]
         ELSE IF IsSpace(ch) THEN [ st EXCEPT !.mode = "indent" ]
         ELSE IF IsIdentStart(ch) THEN [ st EXCEPT !.mode = "name", !.name = << ch >> ]
         ELSE LexError(st)
    [] st.mode = "indent" ->
         IF ch = "#" THEN [ st EXCEPT !.mode = "comment" ]
         ELSE IF IsSpace(ch) THEN st
         ELSE LexError(st)
    [] st.mode = "name" ->
         IF IsIdentChar(ch) THEN [ st EXCEPT !.name = Append(@, ch) ]
         ELSE IF IsSpace(ch) THEN [ st EXCEPT !.mode = "after_name" ]
         ELSE IF ch = "=" THEN [ st EXCEPT !.mode = "after_eq" ]
         ELSE LexError(st)
    [] st.mode = "after_name" ->
         IF IsSpace(ch) THEN st
         ELSE IF ch = "=" THEN [ st EXCEPT !.mode = "after_eq" ]
         ELSE LexError(st)
    [] st.mode = "after_eq" ->
         IF IsSpace(ch) THEN st
         ELSE IF ch = "\"" THEN [ st EXCEPT !.mode = "string" ]
         ELSE LexError(st)
    [] st.mode = "string" ->
         IF ch = "\""
           THEN [ st EXCEPT !.mode = "after_str", !.complete = TRUE,
                            !.value = Append(@, ch) ]
           ELSE [ st EXCEPT !.value = Append(@, ch) ]
    [] st.mode = "after_str" ->
         IF IsSpace(ch) THEN st
         ELSE IF ch = "#" THEN [ st EXCEPT !.mode = "comment" ]
         ELSE LexError(st)

\* One character of a line: the scanner state after reading ch in state st.
LexStep(st, ch) ==
  CASE st.mode = "error" -> st
    [] st.mode = "comment" -> st
    [] st.mode = "bol" ->
         IF ch = "#" THEN [ st EXCEPT !.mode = "comment" ]
         ELSE IF IsSpace(ch) THEN [ st EXCEPT !.mode = "indent" ]
         ELSE IF IsIdentStart(ch) THEN [ st EXCEPT !.mode = "name", !.name = << ch >> ]
         ELSE LexError(st)
    [] st.mode = "indent" ->
         \* blanks before a comment are fine; before a statement they are an
         \* unexpected indent
         IF ch = "#" THEN [ st EXCEPT !.mode = "comment" ]
         ELSE IF IsSpace(ch) THEN st
         ELSE LexError(st)
    [] st.mode = "name" ->
         IF IsIdentChar(ch) THEN [ st EXCEPT !.name = Append(@, ch) ]
         ELSE IF IsSpace(ch) THEN [ st EXCEPT !.mode = "after_name" ]
         ELSE IF ch = "=" THEN [ st EXCEPT !.mode = "after_eq" ]
         ELSE LexError(st)
    [] st.mode = "after_name" ->
         IF IsSpace(ch) THEN st
         ELSE IF ch = "=" THEN [ st EXCEPT !.mode = "after_eq" ]
         ELSE LexError(st)
    [] st.mode = "after_eq" ->
         IF IsSpace(ch) THEN st
         ELSE IF ch = "\"" THEN [ st EXCEPT !.mode = "string" ]
         ELSE LexError(st)
    [] st.mode = "string" ->
         IF ch = "\"" THEN [ st EXCEPT !.mode = "after_str", !.complete = TRUE ]
         ELSE [ st EXCEPT !.value = Append(@, ch) ]
    [] st.mode = "after_str" ->
         IF IsSpace(ch) THEN st
         ELSE IF ch = "#" THEN [ st EXCEPT !.mode = "comment" ]
         ELSE LexError(st)

\* The scanner state after the characters s[lo..hi], read left to right from
\* state st.  The range is halved so that the evaluation stays shallow; "error"
\* absorbs every later character, so the right half is skipped after it.
RECURSIVE LexFrom(_, _, _, _)
LexFrom(st, s, lo, hi) ==
  IF lo > hi THEN st
  ELSE IF lo = hi THEN LexStep(st, s[lo])
  ELSE LET mid == (lo + hi) \div 2
           left == LexFrom(st, s, lo, mid)
       IN  IF left.mode = "error" THEN left ELSE LexFrom(left, s, mid + 1, hi)

\* The scanner state at the end of a whole line s.
LexLine(s) == LexFrom(LexStart, s, 1, Len(s))

\* A line ends well when it is blank, a comment or a complete statement.
LineOk(st) ==
  \/ st.mode \in { "bol", "indent" }
  \/ st.mode = "comment"
  \/ st.mode = "after_str"

Emit_Prepend(cd, st, ln) ==
  IF st.complete
    THEN << [ op |-> "LOAD_CONST", arg |-> st.value, lineno |-> ln ],
            [ op |-> "STORE_NAME", arg |-> st.name, lineno |-> ln ] >> \o cd
    ELSE cd

\* The instructions of a finished line, added to those of the lines above it.
Emit(cd, st, ln) ==
  IF st.complete
    THEN cd \o << [ op |-> "LOAD_CONST", arg |-> st.value, lineno |-> ln ],
                  [ op |-> "STORE_NAME", arg |-> st.name, lineno |-> ln ] >>
    ELSE cd

(***************************************************************************)
(* The Release Records of the file: one per assignment of __version__,     *)
(* released when the assignment is live, a draft when the same text sits   *)
(* behind a leading "#".                                                   *)
(***************************************************************************)
IsVersionAssignment(s) ==
  LET st == LexLine(s) IN st.complete /\ st.mode # "error" /\ st.name = VersionName

IsReleasedLine(i) == IsVersionAssignment(Source[i])

IsDraftLine(i) ==
  /\ Len(Source[i]) > 0
  /\ Source[i][1] = "#"
  /\ IsVersionAssignment(Tail(Source[i]))

RecordAt(i) ==
  IF IsReleasedLine(i)
    THEN [ version |-> LexLine(Source[i]).value, released |-> TRUE, lineno |-> i ]
    ELSE [ version |-> LexLine(Tail(Source[i])).value, released |-> FALSE, lineno |-> i ]

RecordLines == { i \in 1..NLines : IsReleasedLine(i) \/ IsDraftLine(i) }

Records == { RecordAt(i) : i \in RecordLines }

(***************************************************************************)
(* Execution.                                                              *)
(***************************************************************************)
Bind(ns, name, v) ==
  [ n \in (DOMAIN ns) \cup { name } |-> IF n = name THEN v ELSE ns[n] ]

Init ==
  /\ pc = "compile"
  /\ line = 1
  /\ col = 1
  /\ lex = LexStart
  /\ code = << >>
  /\ ip = 1
  /\ stack = << >>
  /\ namespace = << >>

\* The compiler reads the next character of the current line.
LexChar ==
  /\ pc = "compile"
  /\ line <= NLines
  /\ col <= Len(Source[line])
  /\ lex' = LexStep(lex, Source[line][col])
  /\ col' = col + 1
  /\ UNCHANGED << pc, line, code, ip, stack, namespace >>

\* The compiler reaches the end of the current line: a malformed line is a
\* SyntaxError (nothing has run yet), a statement adds its instructions.
LexNewline ==
  /\ pc = "compile"
  /\ line <= NLines
  /\ col > Len(Source[line])
  /\ IF LineOk(lex)
       THEN /\ code' = Emit(code, lex, line)
            /\ line' = line + 1
            /\ col' = 1
            /\ lex' = LexStart
            /\ pc' = pc
       ELSE /\ pc' = "error"
            /\ UNCHANGED << code, line, col, lex >>
  /\ UNCHANGED << ip, stack, namespace >>

\* End of file: the compiled module starts to run.
CompileDone ==
  /\ pc = "compile"
  /\ line > NLines
  /\ pc' = "exec"
  /\ UNCHANGED << line, col, lex, code, ip, stack, namespace >>

\* LOAD_CONST: push the literal.
LoadConst ==
  /\ pc = "exec"
  /\ ip <= Len(code)
  /\ code[ip].op = "LOAD_CONST"
  /\ stack' = Append(stack, code[ip].arg)
  /\ ip' = ip + 1
  /\ UNCHANGED << pc, line, col, lex, code, namespace >>

\* STORE_NAME: pop the top of the stack and bind the name to it.
StoreName ==
  /\ pc = "exec"
  /\ ip <= Len(code)
  /\ code[ip].op = "STORE_NAME"
  /\ IF Len(stack) > 0
       THEN /\ namespace' = Bind(namespace, code[ip].arg, stack[Len(stack)])
            /\ stack' = SubSeq(stack, 1, Len(stack) - 1)
            /\ ip' = ip + 1
            /\ pc' = pc
       ELSE /\ pc' = "error"
            /\ UNCHANGED << namespace, stack, ip >>
  /\ UNCHANGED << line, col, lex, code >>

\* The module body returns: the import is over.
Return ==
  /\ pc = "exec"
  /\ ip > Len(code)
  /\ pc' = "done"
  /\ UNCHANGED << line, col, lex, code, ip, stack, namespace >>

Next ==
  \/ LexChar
  \/ LexNewline
  \/ CompileDone
  \/ LoadConst
  \/ StoreName
  \/ Return

Spec == Init /\ [][Next]_vars

\* The interpreter keeps running until the module body has returned.
FairSpec == Spec /\ WF_vars(Next)

(***************************************************************************)
(* Version strings: dot-separated decimal integers, compared component by  *)
(* component as integers.                                                  *)
(***************************************************************************)
DigitVal(ch) ==
  CASE ch = "0" -> 0 [] ch = "1" -> 1 [] ch = "2" -> 2 [] ch = "3" -> 3
    [] ch = "4" -> 4 [] ch = "5" -> 5 [] ch = "6" -> 6 [] ch = "7" -> 7
    [] ch = "8" -> 8 [] ch = "9" -> 9

\* The components of s between its dots, each a sequence of characters.
RECURSIVE SplitDots(_, _, _, _)
SplitDots(s, i, cur, acc) ==
  IF i > Len(s) THEN Append(acc, cur)
  ELSE IF s[i] = "." THEN SplitDots(s, i + 1, << >>, Append(acc, cur))
  ELSE SplitDots(s, i + 1, Append(cur, s[i]), acc)

Components(s) == SplitDots(s, 1, << >>, << >>)

IsDecimal(c) == Len(c) > 0 /\ \A k \in 1..Len(c) : c[k] \in Digits

RECURSIVE DecimalValue(_, _, _)
DecimalValue(c, k, n) ==
  IF k > Len(c) THEN n ELSE DecimalValue(c, k + 1, 10 * n + DigitVal(c[k]))

WellFormedVersion(s) ==
  LET cs == Components(s)
  IN  Len(cs) = 3 /\ \A k \in 1..Len(cs) : IsDecimal(cs[k])

VersionTuple(s) ==
  LET cs == Components(s) IN [ k \in 1..Len(cs) |-> DecimalValue(cs[k], 1, 0) ]

\* a < b, component by component as integers (a proper prefix is smaller).
VersionLess(a, b) ==
  LET x == VersionTuple(a)
      y == VersionTuple(b)
  IN  \/ \E k \in 1..Len(x) :
           /\ k <= Len(y)
           /\ x[k] < y[k]
           /\ \A j \in 1..(k - 1) : x[j] = y[j]
      \/ /\ Len(x) < Len(y)
         /\ \A j \in 1..Len(x) : x[j] = y[j]

Released == { r \in Records : r.released }

Drafts == { r \in Records : ~r.released }

\* The released record no other released record is newer than.
MostRecentReleased ==
  CHOOSE r \in Released : \A q \in Released : q = r \/ VersionLess(q.version, r.version)

Bound == VersionName \in DOMAIN namespace

Current == namespace[VersionName]

\* Number of STORE_NAME instructions that have run.
Stores == Cardinality({ k \in 1..(ip - 1) : code[k].op = "STORE_NAME" })

V001 == << "0", ".", "0", ".", "1" >>
V002 == << "0", ".", "0", ".", "2" >>
V003 == << "0", ".", "0", ".", "3" >>
V090 == << "0", ".", "9", ".", "0" >>
V100 == << "1", ".", "0", ".", "0" >>
V101 == << "1", ".", "0", ".", "1" >>
V102 == << "1", ".", "0", ".", "2" >>
V103 == << "1", ".", "0", ".", "3" >>
V104 == << "1", ".", "0", ".", "4" >>

(***************************************************************************)
(* C1.  Once the file has run from its first line to its last, __version__ *)
(* is the version of the most recent released record, which is "1.0.4".    *)
(* The code leaves "0.9.0" bound: TLC refutes this statement.              *)
(***************************************************************************)
C1_FinalIsMostRecentReleased ==
  pc = "done" =>
    /\ Bound
    /\ Current = MostRecentReleased.version
    /\ Current = V104

\* The records on the lines the compiler has finished reading.
Scanned == { r \in Records : r.lineno < line }

(***************************************************************************)
(* C2 as stated.  Of any two records read so far, the one higher in the    *)
(* file has the strictly smaller version (versions increase from top to    *)
(* bottom).  Refuted as soon as two records are read: the file lists the   *)
(* newest record first.                                                    *)
(***************************************************************************)
C2_IncreasingTopToBottom ==
  \A r, q \in Scanned : r.lineno < q.lineno => VersionLess(r.version, q.version)

(***************************************************************************)
(* C2 as amended.  Of any two records read so far (released or draft), the *)
(* one higher in the file has the strictly greater version: read from top  *)
(* to bottom the versions strictly decrease, so no two records carry the   *)
(* same version.                                                           *)
(***************************************************************************)
C2_DecreasingTopToBottom ==
  /\ \A r, q \in Scanned : r.lineno < q.lineno => VersionLess(q.version, r.version)
  /\ \A r, q \in Scanned : r.lineno # q.lineno => r.version # q.version

\* All nine records, live and drafted, have been read and the file has run.
C2_Witness ==
  /\ pc = "done"
  /\ Cardinality(Scanned) = 9
  /\ Cardinality({ r \in Scanned : r.released }) = 6
  /\ Cardinality({ r \in Scanned : ~r.released }) = 3

(***************************************************************************)
(* C4.  A record is released exactly when its assignment line does not     *)
(* start with "#"; once the file is compiled the released records are      *)
(* 0.9.0, 1.0.0, 1.0.1, 1.0.2, 1.0.3 and 1.0.4 and the drafts 0.0.1, 0.0.2 *)
(* and 0.0.3; and in every state no draft version is bound to __version__  *)
(* (nor on its way to be bound: none is in the compiled code or on the     *)
(* stack).                                                                 *)
(***************************************************************************)
C4_NeverDraft ==
  /\ \A r \in Scanned : r.released <=> Source[r.lineno][1] # "#"
  /\ pc # "compile" =>
       /\ { r.version : r \in Scanned \cap Released } = { V090, V100, V101, V102, V103, V104 }
       /\ { r.version : r \in Scanned \cap Drafts } = { V001, V002, V003 }
  /\ Bound => Current \notin { V001, V002, V003 }
  /\ \A k \in 1..Len(stack) : stack[k] \notin { V001, V002, V003 }
  /\ \A k \in 1..Len(code) :
       code[k].op = "LOAD_CONST" => code[k].arg \notin { V001, V002, V003 }

\* The drafts' lines have been compiled and every live assignment has run.
C4_Witness ==
  /\ pc = "done"
  /\ Bound
  /\ Stores = 6
  /\ Cardinality(Scanned \cap Drafts) = 3

(***************************************************************************)
(* C5.  Every record's version, and every value __version__ has in any     *)
(* state, is exactly three dot-separated components, each a non-empty run  *)
(* of decimal digits.                                                      *)
(***************************************************************************)
C5_WellFormed ==
  /\ \A r \in Scanned : WellFormedVersion(r.version)
  /\ Bound => WellFormedVersion(Current)
  /\ pc # "compile" => Scanned = Records

\* Every record has been read and __version__ has been rebound twice.
C5_Witness ==
  /\ pc = "exec"
  /\ Cardinality(Scanned) = 9
  /\ Bound
  /\ Current = V102

(***************************************************************************)
(* C6.  Running the file never reaches an error state, never binds a name  *)
(* other than __version__, and ends.                                       *)
(***************************************************************************)
C6_NoFailureOnlyVersion ==
  /\ [](pc # "error" /\ DOMAIN namespace \subseteq { VersionName })
  /\ <>(pc = "done")

\* The run is over and __version__ is the one name bound.
C6_Witness == pc = "done" /\ DOMAIN namespace = { VersionName }

(***************************************************************************)
(* C7.  From the state in which __version__ is first bound, its value is   *)
(* the same in every later state.  Refuted: the five later live            *)
(* assignments each rebind it.                                             *)
(***************************************************************************)
C7_ConstantOnceBound == [][Bound => namespace' = namespace]_vars

\* The values the six live assignments bind, in textual order.
C8_Values == << V104, V103, V102, V101, V100, V090 >>

\* After k assignments have run, __version__ is the k-th of those values.
C8_Order ==
  /\ Stores <= Len(C8_Values)
  /\ Stores = 0 => ~Bound
  /\ Stores > 0 => Bound /\ Current = C8_Values[Stores]
  /\ pc = "done" =>
       /\ Stores = Len(C8_Values)
       /\ Current = V090
       /\ code[Len(code)].lineno = 24
       /\ \A i \in 1..NLines : IsReleasedLine(i) => i <= 24

(***************************************************************************)
(* C8.  The live assignments run in textual order, each overwriting the    *)
(* binding of the one before: __version__ is in turn "1.0.4", "1.0.3",     *)
(* "1.0.2", "1.0.1", "1.0.0", "0.9.0", every rebinding lowers it, and the  *)
(* value left when the run ends is that of line 24, "0.9.0".               *)
(***************************************************************************)
C8_OverwriteOrder ==
  /\ []C8_Order
  /\ [][Bound /\ namespace' # namespace => VersionLess(Current', Current)]_vars

\* The last live assignment has run and the run is over.
C8_Witness == pc = "done" /\ Bound /\ Current = V090 /\ Stores = 6

============================================================================
